---- MODULE Spec2Model ----
(***************************************************************************)
(* Model of the usneseni pipeline: phase 2 (parse_usneseni_phase2.py, the  *)
(* per-record structural parser) and phase 3 (phase3_resolve_references.py,*)
(* the corpus-wide reference resolver).                                    *)
(*                                                                         *)
(* A Python str is a sequence of characters.  A character is a one-letter  *)
(* string; a Czech letter with a diacritic is written as a two-letter      *)
(* string, the mark followed by the base letter: "'a" is a-acute, "^c" is  *)
(* c-caron, "^u" is u-ring.  Such a string is ONE character of the text.   *)
(***************************************************************************)
EXTENDS Integers, Sequences, FiniteSets, TLC

VARIABLES
  pc,              \* which loop of which program runs
  raw_dir,         \* phase 2 --input: set of files [name, data]
  p2_todo,         \* phase 2: sorted(glob) not yet iterated
  phase2_dir,      \* phase 2 --output = phase 3 --input: set of files
  p2_stats,        \* phase 2 stats Counter: [total, missing_action]
  p3_todo,         \* phase 3: sorted(glob) not yet iterated
  usneseni,        \* phase 3: list of loaded records
  by_key,          \* phase 3: list of [key, cands], cands a list of <<rok, id>>
  pos,             \* phase 3: index into usneseni of the running for-loop
  refs_index,      \* phase 3: set of [uid, raw, resolved]
  unresolved,      \* phase 3: list of <<uid, raw>>
  resolved_count,  \* phase 3: counter
  stats,           \* phase 3: the statistics record, None until computed
  call_refs,       \* dedupe_refs: the list it is called with
  deduped          \* dedupe_refs: the list it returns, None before the call

vars == <<pc, raw_dir, p2_todo, phase2_dir, p2_stats, p3_todo, usneseni, by_key,
          pos, refs_index, unresolved, resolved_count, stats, call_refs, deduped>>

-----------------------------------------------------------------------------
(* Characters and strings                                                  *)

Marks == {"^", "'"}

\* A string literal of this module as a Python str (sequence of characters).
Chars(s) ==
  LET n == Len(s)
      ch(i) == SubSeq(s, i, i)
      idx == SelectSeq([i \in 1..n |-> i],
                       LAMBDA i : i = 1 \/ ch(i - 1) \notin Marks)
  IN  [k \in 1..Len(idx) |->
         IF ch(idx[k]) \in Marks THEN SubSeq(s, idx[k], idx[k] + 1)
                                 ELSE ch(idx[k])]

\* Python None.  It is a sequence so that it compares with every str.
None == <<"None">>

\* Python truth value of an optional str or list.
Truthy(x) == x # None /\ x # <<>>

\* "LET x == e IN body" written as Let(e, LAMBDA x : body): x is bound to the
\* value of e.
Let(e, F(_)) == F(e)
Let2(e1, e2, F(_, _)) == F(e1, e2)
Let3(e1, e2, e3, F(_, _, _)) == F(e1, e2, e3)

LowerAscii == Chars("abcdefghijklmnopqrstuvwxyz")
UpperAscii == Chars("ABCDEFGHIJKLMNOPQRSTUVWXYZ")
Digits == {"0", "1", "2", "3", "4", "5", "6", "7", "8", "9"}
AsciiLowerSet == {LowerAscii[i] : i \in 1..26}
AsciiUpperSet == {UpperAscii[i] : i \in 1..26}

\* U+FEFF and U+00A0, each one character.
BOM == "<feff>"
NBSP == "<a0>"

\* str.isspace / regex \s (the white space that this module can write).
WS == {" ", "\t", "\n", "\r", "\f", NBSP}

IsAccented(c) == Len(c) = 2

\* regex \w of a str pattern: letters, digits and the underscore.
IsWord(c) ==
  c \in AsciiLowerSet \/ c \in AsciiUpperSet \/ c \in Digits \/ c = "_"
    \/ IsAccented(c)

\* str.lower() of an ASCII letter.
LowerLetter(c) == LowerAscii[CHOOSE i \in 1..26 : UpperAscii[i] = c]

\* str.lower() of one character.
Lower(c) ==
  Let(AsciiUpperSet, LAMBDA up :
    IF c \in up THEN LowerLetter(c)
    ELSE IF IsAccented(c) /\ SubSeq(c, 2, 2) \in up
      THEN SubSeq(c, 1, 1) \o LowerLetter(SubSeq(c, 2, 2))
    ELSE c)

LowerStr(t) == [i \in 1..Len(t) |-> Lower(t[i])]

Min(S) == CHOOSE x \in S : \A y \in S : x <= y
Max(S) == CHOOSE x \in S : \A y \in S : x >= y

\* t.startswith(p) at 1-based position i
MatchAt(t, i, p) ==
  i + Len(p) - 1 <= Len(t) /\ SubSeq(t, i, i + Len(p) - 1) = p

\* t.lstrip(S), t.rstrip(S), t.strip()
LStrip(t, S) ==
  LET keep == {i \in 1..Len(t) : t[i] \notin S}
  IN  IF keep = {} THEN <<>> ELSE SubSeq(t, Min(keep), Len(t))

RStrip(t, S) ==
  LET keep == {i \in 1..Len(t) : t[i] \notin S}
  IN  IF keep = {} THEN <<>> ELSE SubSeq(t, 1, Max(keep))

Strip(t) == LStrip(RStrip(t, WS), WS)

\* len(t.split()): the number of maximal runs of non-space characters
WordCount(t) ==
  Cardinality({i \in 1..Len(t) :
                 t[i] \notin WS /\ (i = 1 \/ t[i - 1] \in WS)})

\* The end (index of the last character) of the run of characters of S that
\* starts at i; i - 1 when the run is empty.
RunEnd(t, i, S) ==
  LET stop == {j \in i..Len(t) : t[j] \notin S}
  IN  IF stop = {} THEN Len(t) ELSE Min(stop) - 1

\* int(t) for a str of ASCII digits
DigitChars == Chars("0123456789")

DigitValue(c) == CHOOSE d \in 0..9 : DigitChars[d + 1] = c

RECURSIVE ParseInt(_)
ParseInt(t) ==
  IF t = <<>> THEN 0
  ELSE 10 * ParseInt(SubSeq(t, 1, Len(t) - 1)) + DigitValue(t[Len(t)])

\* The characters of this module in code point order.
CodePointOrder ==
  Chars("\t\n\f\r !()*+,-./0123456789:;<=>?@ABCDEFGHIJKLMNOPQRSTUVWXYZ[]_abcdefghijklmnopqrstuvwxyz")
    \o <<NBSP>>
    \o Chars("'A'E'I'O'U'Y'a'e'i'o'u'y^C^c^D^d^E^e^N^n^R^r^S^s^T^t^U^u^Z^z")
    \o <<BOM>>

Ord(c) == Let(CodePointOrder, LAMBDA o : CHOOSE i \in 1..Len(o) : o[i] = c)

\* a < b for two str (lexicographic by code point)
RECURSIVE StrLess(_, _)
StrLess(a, b) ==
  IF b = <<>> THEN FALSE
  ELSE IF a = <<>> THEN TRUE
  ELSE IF a[1] = b[1] THEN StrLess(Tail(a), Tail(b))
  ELSE Ord(a[1]) < Ord(b[1])

\* sorted(S) for a set of str
RECURSIVE SortedStrs(_)
SortedStrs(S) ==
  IF S = {} THEN <<>>
  ELSE Let(CHOOSE x \in S : \A y \in S \ {x} : StrLess(x, y), LAMBDA m :
         <<m>> \o SortedStrs(S \ {m}))

\* The set of the elements of a list.
Range(f) == {f[i] : i \in DOMAIN f}
-----------------------------------------------------------------------------
(* Phase 2: regular expressions and helpers                                *)

\* ID_RE.match(s): ^(RM|ZM)/(\d+)/(\d+)/(\d+)$ ; the groups
\* <<body, num, schuze, rok>> of the match, or None.  "$" also matches
\* before a newline that ends the string.  Phase 2 and phase 3 compile the
\* same expression (phase 2 without the groups).
ID_RE(s) ==
  Let(IF Len(s) > 0 /\ s[Len(s)] = "\n" THEN SubSeq(s, 1, Len(s) - 1) ELSE s,
      LAMBDA t :
  Let(RunEnd(t, 4, Digits), LAMBDA e1 :
  Let(RunEnd(t, e1 + 2, Digits), LAMBDA e2 :
  Let(RunEnd(t, e2 + 2, Digits), LAMBDA e3 :
    IF /\ Len(t) >= 3
       /\ SubSeq(t, 1, 3) \in {<<"R", "M", "/">>, <<"Z", "M", "/">>}
       /\ e1 >= 4 /\ MatchAt(t, e1 + 1, <<"/">>)
       /\ e2 >= e1 + 2 /\ MatchAt(t, e2 + 1, <<"/">>)
       /\ e3 >= e2 + 2 /\ e3 = Len(t)
    THEN <<SubSeq(t, 1, 2), SubSeq(t, 4, e1), SubSeq(t, e1 + 2, e2),
           SubSeq(t, e2 + 2, e3)>>
    ELSE None))))

ACTION_PHRASES ==
  << Chars("ud^eluje p^redb^e^zn'y souhlas"),
     Chars("ud^eluje v'yjimku"),
     Chars("byla sezn'amena"),
     Chars("bere na v^edom'i"),
     Chars("schvaluje"),
     Chars("souhlas'i"),
     Chars("ukl'ad'a"),
     Chars("revokuje"),
     Chars("vyd'av'a"),
     Chars("stanovuje"),
     Chars("doporu^cuje"),
     Chars("odkl'ad'a"),
     Chars("jmenuje"),
     Chars("pov^e^ruje"),
     Chars("sv^e^ruje"),
     Chars("ur^cuje"),
     Chars("zajist'i"),
     Chars("vyhovuje"),
     Chars("rozhoduje"),
     Chars("rozhodla"),
     Chars("projednala"),
     Chars("konstatuje"),
     Chars("potvrzuje"),
     Chars("navrhuje"),
     Chars("nominuje"),
     Chars("vol'i"),
     Chars("stahuje bod"),
     Chars("z^rizuje"),
     Chars("deleguje"),
     Chars("poskytuje"),
     Chars("se zavazuje"),
     Chars("p^rij'im'a dotaci") >>

ORG_HEADERS ==
  << Chars("Rada m^esta Litovel"), Chars("Zastupitelstvo m^esta Litovel") >>

\* ACTION_NORMALIZATION: list of <<variant, canonical form>>
ACTION_NORMALIZATION ==
  << <<Chars("rozhodla"), Chars("rozhoduje")>>,
     <<Chars("byla sezn'amena"), Chars("bere na v^edom'i")>>,
     <<Chars("projednala"), Chars("projedn'av'a")>> >>

\* regex \b between t[k] and t[k + 1]
Boundary(t, k) ==
  (k >= 1 /\ k <= Len(t) /\ IsWord(t[k]))
    # (k + 1 >= 1 /\ k + 1 <= Len(t) /\ IsWord(t[k + 1]))

\* "(phrase|...)\b" of ACTION_RE tried at position from: the alternatives
\* are tried in order; the phrase matched, or None.
PhraseAt(norm, from) ==
  Let(ACTION_PHRASES, LAMBDA ps :
  Let({k \in 1..Len(ps) : /\ MatchAt(norm, from, ps[k])
                          /\ Boundary(norm, from + Len(ps[k]) - 1)},
      LAMBDA hit : IF hit = {} THEN None ELSE ps[Min(hit)]))

\* ACTION_RE.match(norm): ^(ne)?(phrase|...)\b ; <<group 1, group 2>> of the
\* match, or None.  "(ne)?" is greedy: the match with "ne" is tried first.
ACTION_RE(norm) ==
  Let2(IF MatchAt(norm, 1, <<"n", "e">>) THEN PhraseAt(norm, 3) ELSE None,
       PhraseAt(norm, 1),
       LAMBDA negated, plain :
         IF negated # None THEN <<(<<"n", "e">>), negated>>
         ELSE IF plain # None THEN <<None, plain>>
         ELSE None)

normalize_action(a) ==
  IF ~Truthy(a) THEN None
  ELSE Let2(LowerStr(a), ACTION_NORMALIZATION, LAMBDA l, table :
       Let({i \in 1..Len(table) : table[i][1] = l}, LAMBDA k :
         IF k = {} THEN l ELSE table[Min(k)][2]))

\* <<organ, body>>
split_header(text) ==
  Let2(LStrip(text, WS), ORG_HEADERS, LAMBDA t, hs :
  Let({i \in 1..Len(hs) : MatchAt(t, 1, hs[i])}, LAMBDA k :
    IF k = {} THEN <<None, t>>
    ELSE <<hs[Min(k)],
           LStrip(SubSeq(t, Len(hs[Min(k)]) + 1, Len(t)), {" ", ",", "\n"})>>))

\* "[a-z]\)\s" of ITEM_RE at position j
MarkerAt(t, j) ==
  /\ j >= 1 /\ j + 2 <= Len(t)
  /\ t[j] \in AsciiLowerSet /\ t[j + 1] = ")" /\ t[j + 2] \in WS

\* A faulty ItemLabelAt: (?:^|\s)([a-z])\)\s+ , a marker after any white
\* space, not only at the start of a line.
ItemLabelAnywhere(t, i) ==
  IF i = 1 /\ MarkerAt(t, 1) THEN 1
  ELSE IF i <= Len(t) /\ t[i] \in WS /\ MarkerAt(t, i + 1) THEN i + 1
  ELSE 0

\* ITEM_RE tried at position i: (?:^|\n)([a-z])\)\s+ without re.MULTILINE, so
\* "^" is the start of the string only.  The position of the label, or 0.
ItemLabelAt(t, i) ==
  IF i = 1 /\ MarkerAt(t, 1) THEN 1
  ELSE IF i <= Len(t) /\ t[i] = "\n" /\ MarkerAt(t, i + 1) THEN i + 1
  ELSE 0

\* ITEM_RE.finditer(t) from position from: list of [start, label, end], start
\* the first and end the last character of the match.
RECURSIVE ITEM_RE_finditer(_, _)
ITEM_RE_finditer(t, from) ==
  Let({i \in from..Len(t) : ItemLabelAt(t, i) # 0}, LAMBDA at :
    IF at = {} THEN <<>>
    ELSE Let(ItemLabelAt(t, Min(at)), LAMBDA l :
         Let(RunEnd(t, l + 2, WS), LAMBDA e :
           <<[start |-> Min(at), label |-> t[l], end |-> e]>>
             \o ITEM_RE_finditer(t, e + 1))))

\* The items of split_head_items: rest = text[m.start():] and its matches
ItemsOf(rest, matches) ==
  [i \in 1..Len(matches) |->
     [label |-> matches[i].label,
      text |-> Strip(SubSeq(rest, matches[i].end + 1,
                            IF i + 1 <= Len(matches)
                              THEN matches[i + 1].start - 1
                              ELSE Len(rest)))]]

\* <<head, items>>
split_head_items(text) ==
  Let(ITEM_RE_finditer(text, 1), LAMBDA found :
    IF found = <<>> THEN <<Strip(text), <<>>>>
    ELSE Let(SubSeq(text, found[1].start, Len(text)), LAMBDA rest :
           <<Strip(SubSeq(text, 1, found[1].start - 1)),
             ItemsOf(rest, ITEM_RE_finditer(rest, 1))>>))

\* A faulty extract_action: group 1 is not looked at, the negation is lost.
extract_action_base(text) ==
  IF ~Truthy(text) THEN None
  ELSE Let(ACTION_RE(LowerStr(LStrip(text, {BOM, " ", "\t", "\n", "\r", NBSP}))),
           LAMBDA m : IF m = None THEN None ELSE m[2])

extract_action(text) ==
  IF ~Truthy(text) THEN None
  ELSE Let(ACTION_RE(LowerStr(LStrip(text, {BOM, " ", "\t", "\n", "\r", NBSP}))),
           LAMBDA m :
             IF m = None THEN None
             ELSE IF Truthy(m[1]) THEN <<"n", "e">> \o m[2]
             ELSE m[2])

\* h after the loop "for org in ORG_HEADERS" has run over orgs
RECURSIVE StripOrgs(_, _)
StripOrgs(h, orgs) ==
  IF orgs = <<>> THEN h
  ELSE StripOrgs(IF MatchAt(LowerStr(h), 1, LowerStr(Head(orgs)))
                   THEN LStrip(SubSeq(h, Len(Head(orgs)) + 1, Len(h)), {" ", ","})
                   ELSE h,
                 Tail(orgs))

\* s or None
OrNone(s) == IF s = <<>> THEN None ELSE s

\* <<action, subject>>
extract_action_and_subject(head) ==
  Let(StripOrgs(Strip(head), ORG_HEADERS), LAMBDA h :
  Let(extract_action(h), LAMBDA action :
    IF ~Truthy(action) THEN <<None, OrNone(RStrip(h, {":"}))>>
    ELSE <<action,
           OrNone(RStrip(LStrip(Strip(SubSeq(h, Len(action) + 1, Len(h))),
                                {","}),
                         {":"}))>>))
\* REF_EXPLICIT_RE tried at position i: RM/\d+/\d+/\d+ ; the last character
\* of the match, or 0.
RefExplicitEnd(t, i) ==
  Let(RunEnd(t, i + 3, Digits), LAMBDA e1 :
  Let(RunEnd(t, e1 + 2, Digits), LAMBDA e2 :
  Let(RunEnd(t, e2 + 2, Digits), LAMBDA e3 :
    IF /\ MatchAt(t, i, <<"R", "M", "/">>)
       /\ e1 >= i + 3 /\ MatchAt(t, e1 + 1, <<"/">>)
       /\ e2 >= e1 + 2 /\ MatchAt(t, e2 + 1, <<"/">>)
       /\ e3 >= e2 + 2
    THEN e3 ELSE 0)))

\* REF_EXPLICIT_RE.findall(t) from position from
RECURSIVE REF_EXPLICIT_RE_findall(_, _)
REF_EXPLICIT_RE_findall(t, from) ==
  Let({i \in from..Len(t) : RefExplicitEnd(t, i) # 0}, LAMBDA at :
    IF at = {} THEN <<>>
    ELSE Let(RefExplicitEnd(t, Min(at)), LAMBDA e :
           <<SubSeq(t, Min(at), e)>> \o REF_EXPLICIT_RE_findall(t, e + 1)))

KwUsneseni == Chars("usnesen'i")
KwUsn == Chars("usn.")

\* "(usneseni|usn\.)" tried at position i, ignoring case: the length of the
\* match, or 0
KeywordLen(t, i) ==
  IF Lower(t[i]) # "u" THEN 0
  ELSE Let3(KwUsneseni, KwUsn, LowerStr(SubSeq(t, i, Len(t))), LAMBDA kw1, kw2, low :
         IF MatchAt(low, 1, kw1) THEN Len(kw1)
         ELSE IF MatchAt(low, 1, kw2) THEN Len(kw2)
         ELSE 0)

\* The pattern of extract_refs tried at position i, with re.IGNORECASE:
\* (usneseni|usn\.)\s*(c\.?)?\s*(\d{1,4}/\d{1,3}) ; <<first, last>> character
\* of group 3, or <<>>.
RefImplicitAt(t, i) ==
  Let(KeywordLen(t, i), LAMBDA k :
    IF k = 0 THEN <<>>
    ELSE
      Let(RunEnd(t, i + k, WS) + 1, LAMBDA a :
      Let(IF a <= Len(t) /\ Lower(t[a]) = "^c"
            THEN IF MatchAt(t, a + 1, <<".">>) THEN a + 2 ELSE a + 1
            ELSE a, LAMBDA b :
      Let(RunEnd(t, b, WS) + 1, LAMBDA c :
      Let(RunEnd(t, c, Digits), LAMBDA d1 :
      Let(RunEnd(t, d1 + 2, Digits), LAMBDA d2 :
        IF /\ d1 >= c /\ d1 - c + 1 <= 4 /\ MatchAt(t, d1 + 1, <<"/">>)
           /\ d2 >= d1 + 2
        THEN <<c, IF d2 - d1 - 1 > 3 THEN d1 + 4 ELSE d2>>
        ELSE <<>>))))))

\* re.finditer of that pattern from position from: the list of group 3
RECURSIVE RefImplicit_finditer(_, _)
RefImplicit_finditer(t, from) ==
  Let({i \in from..Len(t) : RefImplicitAt(t, i) # <<>>}, LAMBDA at :
    IF at = {} THEN <<>>
    ELSE Let(RefImplicitAt(t, Min(at)), LAMBDA m :
           <<SubSeq(t, m[1], m[2])>> \o RefImplicit_finditer(t, m[2] + 1)))

extract_refs(text) ==
  Let2(REF_EXPLICIT_RE_findall(text, 1), RefImplicit_finditer(text, 1),
       LAMBDA ex, im :
         [i \in 1..Len(ex) |->
            [raw |-> ex[i], type |-> "explicit", resolved |-> ex[i]]]
         \o [i \in 1..Len(im) |->
            [raw |-> im[i], type |-> "implicit", resolved |-> None]])

\* \s*Kc tried at position j: the last character of the match, or 0
KcEnd(t, j) ==
  Let(RunEnd(t, j, WS) + 1, LAMBDA k :
    IF MatchAt(t, k, <<"K", "^c">>) THEN k + 1 ELSE 0)

AllDigits(t, a, b) == b <= Len(t) /\ \A j \in a..b : t[j] \in Digits

\* (\d)<dot>\s*\n\s*(\d{3})\s*Kc tried at position i, dot = 1 for the first
\* substitution of normalize_amount_text ("\." after the digit) and 0 for the
\* second: <<d3, end>>, d3 the first of the three digits and end the last
\* character of the match, or <<>>.
SplitAmountAt(t, i, dot) ==
  Let(RunEnd(t, i + 1 + dot, WS), LAMBDA e :
  Let(KcEnd(t, e + 4), LAMBDA end :
    IF /\ i <= Len(t) /\ t[i] \in Digits
       /\ (dot = 1 => MatchAt(t, i + 1, <<".">>))
       /\ \E j \in (i + 1 + dot)..e : t[j] = "\n"
       /\ AllDigits(t, e + 1, e + 3)
       /\ end # 0
    THEN <<e + 1, end>>
    ELSE <<>>))

\* re.sub of that pattern, from position from
RECURSIVE SubSplitAmount(_, _, _)
SubSplitAmount(t, from, dot) ==
  Let({i \in from..Len(t) : SplitAmountAt(t, i, dot) # <<>>}, LAMBDA at :
    IF at = {} THEN SubSeq(t, from, Len(t))
    ELSE Let(SplitAmountAt(t, Min(at), dot), LAMBDA m :
           SubSeq(t, from, Min(at)) \o (IF dot = 1 THEN <<".">> ELSE <<>>)
             \o SubSeq(t, m[1], m[1] + 2) \o <<" ", "K", "^c">>
             \o SubSplitAmount(t, m[2] + 1, dot)))

normalize_amount_text(text) ==
  SubSplitAmount(SubSplitAmount(text, 1, 1), 1, 0)

\* (?:[ .]\d{3})* from position j: the last character matched (j - 1 if none)
RECURSIVE ThousandsEnd(_, _)
ThousandsEnd(t, j) ==
  IF j <= Len(t) /\ t[j] \in {" ", "."} /\ AllDigits(t, j + 1, j + 3)
    THEN ThousandsEnd(t, j + 4)
    ELSE j - 1

\* AMOUNT_RE tried at position i: \b\d{1,3}(?:[ .]\d{3})*\s*Kc\b ; the last
\* character of the match, or 0.  Giving back digits or groups never lets
\* the rest match, so the greedy choice decides.
AmountEnd(t, i) ==
  Let(RunEnd(t, i, Digits), LAMBDA d :
  Let(KcEnd(t, ThousandsEnd(t, d + 1) + 1), LAMBDA e :
    IF /\ i <= Len(t) /\ t[i] \in Digits /\ Boundary(t, i - 1)
       /\ d - i + 1 <= 3
       /\ e # 0 /\ Boundary(t, e)
    THEN e ELSE 0))

RECURSIVE AMOUNT_RE_findall(_, _)
AMOUNT_RE_findall(t, from) ==
  Let({i \in from..Len(t) : AmountEnd(t, i) # 0}, LAMBDA at :
    IF at = {} THEN <<>>
    ELSE Let(AmountEnd(t, Min(at)), LAMBDA e :
           <<SubSeq(t, Min(at), e)>> \o AMOUNT_RE_findall(t, e + 1)))

\* The set of extract_amounts(text), which returns it sorted
extract_amounts(text) == Range(AMOUNT_RE_findall(text, 1))

\* The class [a-z and the accented lower-case letters] of TAIL_LINE_RE
TailLower ==
  AsciiLowerSet \cup Range(Chars("'a^c^d'e^e'i^n'o^r^s^t'u^u'y^z"))

\* TAIL_LINE_RE.search(txt): the positions of "\n(?=[a-z...])"
TAIL_LINE_RE(txt) ==
  Let(TailLower, LAMBDA low :
    {i \in 1..Len(txt) - 1 : txt[i] = "\n" /\ txt[i + 1] \in low})

\* <<items, tail>>
split_tail_from_last_item(items) ==
  IF items = <<>> THEN <<items, None>>
  ELSE Let2(items[Len(items)].text, TAIL_LINE_RE(items[Len(items)].text),
            LAMBDA txt, at :
         IF at = {} THEN <<items, None>>
         ELSE Let(Strip(SubSeq(txt, 1, Min(at) - 1)), LAMBDA head :
                IF WordCount(head) < 3 THEN <<items, None>>
                ELSE <<[items EXCEPT ![Len(items)].text = head],
                       Strip(SubSeq(txt, Min(at), Len(txt)))>>))

\* seen[r["raw"]] = r for every r, then the values: one reference per raw
\* text, at the place of its first occurrence, with the value of its last.
dedupe_refs(refs) ==
  LET firsts == SelectSeq([i \in 1..Len(refs) |-> i],
                          LAMBDA i : \A j \in 1..(i - 1) : refs[j].raw # refs[i].raw)
      last(raw) == Max({j \in 1..Len(refs) : refs[j].raw = raw})
  IN  [k \in 1..Len(firsts) |-> refs[last(refs[firsts[k]].raw)]]

\* The concatenation of a list of lists.
RECURSIVE Flatten(_)
Flatten(ss) == IF ss = <<>> THEN <<>> ELSE Head(ss) \o Flatten(Tail(ss))

\* extract_refs over a list of spans, in order
RefsOf(spans) == Flatten([i \in 1..Len(spans) |-> extract_refs(spans[i])])

\* extract_amounts(normalize_amount_text(span)) over a list of spans
AmountsOf(spans) ==
  UNION {extract_amounts(normalize_amount_text(spans[i])) : i \in 1..Len(spans)}

ItemTextsOf(items) == [i \in 1..Len(items) |-> items[i].text]

OptSpan(s) == IF Truthy(s) THEN <<s>> ELSE <<>>

-----------------------------------------------------------------------------
(* Phase 2: process_usneseni                                               *)

\* The spans that the Type A branch scans for references: the items, then
\* the tail.  (The subject is scanned for amounts only.)
TypeARefSpans(subject, items, tail) == ItemTextsOf(items) \o OptSpan(tail)

\* The spans that the Type A branch scans for amounts
TypeAAmountSpans(subject, items, tail) ==
  OptSpan(subject) \o ItemTextsOf(items) \o OptSpan(tail)

\* The record of the branch "if has_local_actions"
TypeB(raw, organ, head, items, item_actions) ==
  [id |-> raw.id,
   datum |-> raw.datum,
   organ |-> organ,
   actions |-> SortedStrs({a \in Range(item_actions) : Truthy(a)}),
   subject |-> None,
   items |-> items,
   tail |-> None,
   references_out |-> dedupe_refs(RefsOf(ItemTextsOf(items))),
   amounts |-> SortedStrs(AmountsOf(ItemTextsOf(items)))]

\* The record of the other branch
TypeA(raw, organ, head, items) ==
  Let2(extract_action_and_subject(head), split_tail_from_last_item(items),
       LAMBDA as, st :
         [id |-> raw.id,
          datum |-> raw.datum,
          organ |-> organ,
          actions |-> OptSpan(as[1]),
          subject |-> as[2],
          items |-> st[1],
          tail |-> st[2],
          references_out |-> dedupe_refs(RefsOf(TypeARefSpans(as[2], st[1], st[2]))),
          amounts |-> SortedStrs(AmountsOf(TypeAAmountSpans(as[2], st[1], st[2])))])

\* The actions of the items: [extract_action(it["text"]) for it in items]
ItemActions(items) == [i \in 1..Len(items) |-> extract_action(items[i].text)]

process_usneseni(raw) ==
  Let(split_header(raw.text_raw), LAMBDA hb :
  Let(split_head_items(hb[2]), LAMBDA hi :
  Let(ItemActions(hi[2]), LAMBDA item_actions :
    IF \E i \in 1..Len(item_actions) : Truthy(item_actions[i])
      THEN TypeB(raw, hb[1], hi[1], hi[2], item_actions)
      ELSE TypeA(raw, hb[1], hi[1], hi[2]))))
-----------------------------------------------------------------------------
(* Directories                                                             *)

\* sorted(dir.glob("*.json")): the files of a directory ordered by name
RECURSIVE SortedFiles(_)
SortedFiles(dir) ==
  IF dir = {} THEN <<>>
  ELSE Let(CHOOSE x \in dir : \A y \in dir \ {x} : StrLess(x.name, y.name),
           LAMBDA f : <<f>> \o SortedFiles(dir \ {f}))

\* path.write_text(...): the file of that name is created or replaced
WriteFile(dir, name, data) ==
  {f \in dir : f.name # name} \cup {[name |-> name, data |-> data]}

\* save_usneseni of phase 1 names a file after the id: "/" becomes "-"
FileName(id) ==
  [i \in 1..Len(id) |-> IF id[i] = "/" THEN "-" ELSE id[i]]
    \o <<".", "j", "s", "o", "n">>

-----------------------------------------------------------------------------
(* Phase 2: main                                                           *)

\* for p in sorted(...): if not ID_RE.match(raw.get("id", "")): continue
P2Skip ==
  /\ pc = "p2"
  /\ p2_todo # <<>>
  /\ ID_RE(Head(p2_todo).data.id) = None
  /\ p2_todo' = Tail(p2_todo)
  /\ UNCHANGED <<pc, raw_dir, phase2_dir, p2_stats, p3_todo, usneseni, by_key,
                 pos, refs_index, unresolved, resolved_count, stats, call_refs, deduped>>

\* stats["total"] += 1; stats["missing_action"] += 1 if there is no action;
\* (args.output / p.name).write_text(json.dumps(parsed))
P2Write(p, parsed) ==
  /\ p2_stats' =
       [total |-> p2_stats.total + 1,
        missing_action |->
          p2_stats.missing_action + (IF parsed.actions = <<>> THEN 1 ELSE 0)]
  /\ phase2_dir' = WriteFile(phase2_dir, p.name, parsed)

\* parsed = process_usneseni(raw); the counters; the record is written
P2Process ==
  /\ pc = "p2"
  /\ p2_todo # <<>>
  /\ ID_RE(Head(p2_todo).data.id) # None
  /\ P2Write(Head(p2_todo), process_usneseni(Head(p2_todo).data))
  /\ p2_todo' = Tail(p2_todo)
  /\ UNCHANGED <<pc, raw_dir, p3_todo, usneseni, by_key, pos, refs_index,
                 unresolved, resolved_count, stats, call_refs, deduped>>

\* the loop is over: the statistics are printed
P2Done ==
  /\ pc = "p2"
  /\ p2_todo = <<>>
  /\ pc' = "p2_done"
  /\ UNCHANGED <<raw_dir, p2_todo, phase2_dir, p2_stats, p3_todo, usneseni,
                 by_key, pos, refs_index, unresolved, resolved_count, stats, call_refs, deduped>>

-----------------------------------------------------------------------------
(* Phase 3: parse_id and main                                              *)

\* parse_id: (int(num), int(schuze), int(rok)) or None
parse_id(id_str) ==
  Let(ID_RE(id_str), LAMBDA m :
    IF m = None THEN None
    ELSE <<ParseInt(m[2]), ParseInt(m[3]), ParseInt(m[4])>>)

\* by_key.get(k, [])
Get(f, k) == IF k \in DOMAIN f THEN f[k] ELSE <<>>

\* f[k] = v of a dict
Put(f, k, v) == [x \in DOMAIN f \cup {k} |-> IF x = k THEN v ELSE f[x]]

\* u[k] = v of a record that may not have the key yet
SetItem(u, k, v) == [x \in DOMAIN u \cup {k} |-> IF x = k THEN v ELSE u[x]]

\* (rok, id) < (rok, id) of two tuples
CandLess(a, b) == a[1] < b[1] \/ (a[1] = b[1] /\ StrLess(a[2], b[2]))

\* list.sort() of a list of (rok, id)
RECURSIVE SortCands(_)
SortCands(c) ==
  IF c = <<>> THEN <<>>
  ELSE Let(SortCands(Tail(c)), LAMBDA rest :
         SelectSeq(rest, LAMBDA x : ~CandLess(Head(c), x))
           \o <<Head(c)>>
           \o SelectSeq(rest, LAMBDA x : CandLess(Head(c), x)))

\* raw.split("/")
RECURSIVE Split(_)
Split(t) ==
  Let({i \in 1..Len(t) : t[i] = "/"}, LAMBDA at :
    IF at = {} THEN <<t>>
    ELSE <<SubSeq(t, 1, Min(at) - 1)>> \o Split(SubSeq(t, Min(at) + 1, Len(t))))

\* int(s) succeeds: a run of digits (a sign, white space around it and
\* underscores, which int also takes, do not occur in a reference)
IsInt(s) == s # <<>> /\ \A i \in 1..Len(s) : s[i] \in Digits

\* num, schuze = map(int, raw.split("/")): <<num, schuze>>, or None for the
\* ValueError (not two parts, or a part that int refuses)
IntPair(raw) ==
  Let(Split(raw), LAMBDA parts :
    IF Len(parts) = 2 /\ IsInt(parts[1]) /\ IsInt(parts[2])
      THEN <<ParseInt(parts[1]), ParseInt(parts[2])>>
      ELSE None)

\* A faulty Chosen: the candidates are walked without reversed(), so the
\* oldest one that is not later than self_year wins.
ChosenOldest(candidates, self_year) ==
  Let({i \in 1..Len(candidates) : candidates[i][1] <= self_year}, LAMBDA ok :
    IF ok = {} THEN None ELSE candidates[Min(ok)][2])

\* A faulty Chosen: the test "rok <= self_year" is left out, so the last
\* candidate wins whatever its year.
ChosenAnyYear(candidates, self_year) ==
  IF candidates = <<>> THEN None ELSE candidates[Len(candidates)][2]

\* chosen = None; for rok, cid in reversed(candidates):
\*   if rok <= self_year: chosen = cid; break
Chosen(candidates, self_year) ==
  Let({i \in 1..Len(candidates) : candidates[i][1] <= self_year}, LAMBDA ok :
    IF ok = {} THEN None ELSE candidates[Max(ok)][2])

\* What one reference leaves behind: the reference, what refs_index gets for
\* it (a list of none or one id), the pairs it adds to unresolved, and what
\* it adds to resolved_count.
Resolved(r, id) ==
  [r |-> [r EXCEPT !.resolved = id], index |-> <<id>>, unresolved |-> <<>>,
   count |-> 1]

Unresolved(uid, r) ==
  [r |-> r, index |-> <<>>, unresolved |-> << <<uid, r.raw>> >>, count |-> 0]

\* A faulty ResolveRef: an explicit reference counts as resolved only when
\* its target is a record of the index.
ResolveRefExplicitChecked(key_index, uid, self_year, r) ==
  IF r.type = "explicit"
    THEN IF \E k \in DOMAIN key_index :
              \E n \in 1..Len(key_index[k]) : key_index[k][n][2] = r.raw
           THEN Resolved(r, r.raw)
           ELSE Unresolved(uid, r)
  ELSE Let(IntPair(r.raw), LAMBDA ns :
         IF ns = None THEN Unresolved(uid, r)
         ELSE Let(Chosen(Get(key_index, ns), self_year), LAMBDA chosen :
                IF Truthy(chosen) THEN Resolved(r, chosen)
                ELSE Unresolved(uid, r)))

\* The body of "for r in u.get('references_out', [])" for one reference
ResolveRef(key_index, uid, self_year, r) ==
  IF r.type = "explicit" THEN Resolved(r, r.raw)
  ELSE Let(IntPair(r.raw), LAMBDA ns :
         IF ns = None THEN Unresolved(uid, r)
         ELSE Let(Chosen(Get(key_index, ns), self_year), LAMBDA chosen :
                IF Truthy(chosen) THEN Resolved(r, chosen)
                ELSE Unresolved(uid, r)))

\* by_id = {u["id"]: u for u in usneseni}: the index in usneseni of the
\* record that by_id holds for an id (the last one), 0 if there is none
by_id(id) ==
  Let({i \in 1..Len(usneseni) : usneseni[i].id = id}, LAMBDA at :
    IF at = {} THEN 0 ELSE Max(at))

\* usneseni = [], by_key = defaultdict(list), sorted(args.input.glob(...))
P3Start ==
  /\ pc = "p2_done"
  /\ pc' = "p3_load"
  /\ p3_todo' = SortedFiles(phase2_dir)
  /\ usneseni' = <<>>
  /\ by_key' = <<>>
  /\ UNCHANGED <<raw_dir, p2_todo, phase2_dir, p2_stats, pos, refs_index,
                 unresolved, resolved_count, stats, call_refs, deduped>>

\* parsed = parse_id(data["id"]); if not parsed: continue
P3LoadSkip ==
  /\ pc = "p3_load"
  /\ p3_todo # <<>>
  /\ parse_id(Head(p3_todo).data.id) = None
  /\ p3_todo' = Tail(p3_todo)
  /\ UNCHANGED <<pc, raw_dir, p2_todo, phase2_dir, p2_stats, usneseni, by_key,
                 pos, refs_index, unresolved, resolved_count, stats, call_refs, deduped>>

\* usneseni.append(data); by_key[(num, schuze)].append((rok, data["id"]))
LoadRecord(data, parsed) ==
  /\ usneseni' = Append(usneseni, data)
  /\ by_key' = Put(by_key, <<parsed[1], parsed[2]>>,
                   Append(Get(by_key, <<parsed[1], parsed[2]>>),
                          <<parsed[3], data.id>>))

P3Load ==
  /\ pc = "p3_load"
  /\ p3_todo # <<>>
  /\ parse_id(Head(p3_todo).data.id) # None
  /\ LoadRecord(Head(p3_todo).data, parse_id(Head(p3_todo).data.id))
  /\ p3_todo' = Tail(p3_todo)
  /\ UNCHANGED <<pc, raw_dir, p2_todo, phase2_dir, p2_stats, pos, refs_index,
                 unresolved, resolved_count, stats, call_refs, deduped>>

\* for k in by_key: by_key[k].sort(); refs_index = {}; unresolved = [];
\* resolved_count = 0
P3Sort ==
  /\ pc = "p3_load"
  /\ p3_todo = <<>>
  /\ by_key' = [k \in DOMAIN by_key |-> SortCands(by_key[k])]
  /\ refs_index' = <<>>
  /\ unresolved' = <<>>
  /\ resolved_count' = 0
  /\ pos' = 1
  /\ pc' = "p3_resolve"
  /\ UNCHANGED <<raw_dir, p2_todo, phase2_dir, p2_stats, p3_todo, usneseni, stats, call_refs, deduped>>

\* refs_index[(uid, raw)] = ... for the references of one record, in order
RECURSIVE PutAll(_, _, _)
PutAll(f, uid, done) ==
  IF done = <<>> THEN f
  ELSE PutAll(IF Head(done).index = <<>> THEN f
              ELSE Put(f, <<uid, Head(done).r.raw>>, Head(done).index[1]),
              uid, Tail(done))

\* The sum of a list of numbers.
RECURSIVE Sum(_)
Sum(ns) == IF ns = <<>> THEN 0 ELSE Head(ns) + Sum(Tail(ns))

\* A faulty ResolveRecord: references_in is made only when the record has
\* none (u.setdefault("references_in", [])), so the entries that a record
\* brings along are kept.
ResolveRecordKeepIn(u, done) ==
  /\ usneseni' =
       [usneseni EXCEPT
          ![pos] = [(IF "references_in" \in DOMAIN u THEN u
                     ELSE SetItem(u, "references_in", <<>>)) EXCEPT
                      !.references_out = [i \in 1..Len(done) |-> done[i].r]]]
  /\ refs_index' = PutAll(refs_index, u.id, done)
  /\ unresolved' =
       unresolved \o Flatten([i \in 1..Len(done) |-> done[i].unresolved])
  /\ resolved_count' =
       resolved_count + Sum([i \in 1..Len(done) |-> done[i].count])

\* One iteration of "for u in usneseni" of part 2; done is what each
\* reference of u leaves behind.
ResolveRecord(u, done) ==
  /\ usneseni' =
       [usneseni EXCEPT
          ![pos] = [SetItem(u, "references_in", <<>>) EXCEPT
                      !.references_out = [i \in 1..Len(done) |-> done[i].r]]]
  /\ refs_index' = PutAll(refs_index, u.id, done)
  /\ unresolved' =
       unresolved \o Flatten([i \in 1..Len(done) |-> done[i].unresolved])
  /\ resolved_count' =
       resolved_count + Sum([i \in 1..Len(done) |-> done[i].count])

\* The references of u, each resolved against the index
ResolveAll(key_index, u, parsed_self) ==
  [i \in 1..Len(u.references_out) |->
     ResolveRef(key_index, u.id, parsed_self[3], u.references_out[i])]

P3Resolve ==
  /\ pc = "p3_resolve"
  /\ pos <= Len(usneseni)
  /\ IF parse_id(usneseni[pos].id) = None
       THEN /\ usneseni' =
                 [usneseni EXCEPT ![pos] = SetItem(@, "references_in", <<>>)]
            /\ UNCHANGED <<refs_index, unresolved, resolved_count>>
       ELSE ResolveRecord(usneseni[pos],
                          ResolveAll(by_key, usneseni[pos],
                                     parse_id(usneseni[pos].id)))
  /\ pos' = pos + 1
  /\ UNCHANGED <<pc, raw_dir, p2_todo, phase2_dir, p2_stats, p3_todo, by_key, stats, call_refs, deduped>>

\* by_id = {u["id"]: u for u in usneseni}
P3ById ==
  /\ pc = "p3_resolve"
  /\ pos > Len(usneseni)
  /\ pc' = "p3_refs_in"
  /\ pos' = 1
  /\ UNCHANGED <<raw_dir, p2_todo, phase2_dir, p2_stats, p3_todo, usneseni, by_key,
                 refs_index, unresolved, resolved_count, stats, call_refs, deduped>>

\* The references of u that reach a record of by_id: tgt = r.get("resolved");
\* if not tgt: continue; if tgt not in by_id: continue
Hits(u) ==
  SelectSeq(u.references_out,
            LAMBDA r : Truthy(r.resolved) /\ by_id(r.resolved) # 0)

\* {"from": src, "action": next(iter(u["actions"]), None)}
RefIn(u) ==
  [from |-> u.id, action |-> IF u.actions = <<>> THEN None ELSE u.actions[1]]

\* The entries that the references of u append to the references_in of
\* the record at index i
EntriesFor(u, i) ==
  Let(SelectSeq(Hits(u), LAMBDA r : by_id(r.resolved) = i), LAMBDA mine :
    [k \in 1..Len(mine) |-> RefIn(u)])

\* One iteration of "for u in usneseni" of part 3.
P3RefsIn ==
  /\ pc = "p3_refs_in"
  /\ pos <= Len(usneseni)
  /\ usneseni' =
       [i \in 1..Len(usneseni) |->
          [usneseni[i] EXCEPT
             !.references_in = @ \o EntriesFor(usneseni[pos], i)]]
  /\ pos' = pos + 1
  /\ UNCHANGED <<pc, raw_dir, p2_todo, phase2_dir, p2_stats, p3_todo, by_key,
                 refs_index, unresolved, resolved_count, stats, call_refs, deduped>>

\* stats = {...}; usneseni.json, refs_index.json and stats_refs.json are written
P3Stats ==
  /\ pc = "p3_refs_in"
  /\ pos > Len(usneseni)
  /\ stats' =
       [total_usneseni |-> Len(usneseni),
        refs_total |-> Sum([i \in 1..Len(usneseni) |->
                              Len(usneseni[i].references_out)]),
        refs_resolved |-> resolved_count,
        refs_unresolved |-> Len(unresolved),
        unresolved_refs |-> unresolved]
  /\ pc' = "done"
  /\ UNCHANGED <<raw_dir, p2_todo, phase2_dir, p2_stats, p3_todo, usneseni, by_key,
                 pos, refs_index, unresolved, resolved_count, call_refs, deduped>>
-----------------------------------------------------------------------------
(* Inputs                                                                  *)

\* The most files of a batch.
MaxFiles == 3
\* The most lettered items of a text.
MaxItems == 2
\* The most references of a list given to dedupe_refs.
MaxRefs == 3

Datum == Chars("2025-03-10")

BadId == Chars("XX/1200/55/2024")

\* An id that is not of the grammar either: a line feed ends it
NewlineId == Chars("RM/1200/55/2024\n")

RawIds ==
  { Chars("RM/1200/55/2023"), Chars("RM/1200/55/2024"), Chars("ZM/1200/55/2024"),
    Chars("RM/7/3/2025"), Chars("RM/1200/55/2026"), BadId }

\* Texts of a batch: with and without references
BatchTexts ==
  { Chars("Rada m^esta Litovel schvaluje rozpo^cet"),
    Chars("a) revokuje usnesen'i 1200/55 a RM/1200/55/2024"),
    Chars("a) ru^s'i usnesen'i 9999/1\nb) schvaluje usn. ^c. 1200/55") }

RawFile(id, text) ==
  [name |-> FileName(id),
   data |-> [id |-> id, datum |-> Datum, text_raw |-> text]]

\* The directories that hold one file for each id of S
DirsOver(S, texts) == {{RawFile(id, f[id]) : id \in S} : f \in [S -> texts]}

RawDirs ==
  UNION {DirsOver(S, BatchTexts) :
           S \in {T \in SUBSET RawIds : Cardinality(T) \in 1..MaxFiles}}

\* A file that the output directory of phase 2 may hold before phase 2 runs
\* (the directory is made with exist_ok=True and is not emptied).
StaleFile ==
  [name |-> Chars("stale.json"),
   data |-> [id |-> BadId, datum |-> None, organ |-> None,
             actions |-> <<Chars("schvaluje")>>, subject |-> None,
             items |-> <<>>, tail |-> None,
             references_out |->
               <<[raw |-> Chars("1200/55"), type |-> "implicit", resolved |-> None]>>,
             amounts |-> <<>>]]

TextOrgs == {<<>>, Chars("Rada m^esta Litovel ")}

TextHeads ==
  { <<>>,
    Chars("neschvaluje ^z'adost o dotaci"),
    Chars("rozhodla:"),
    Chars("byla sezn'amena s usnesen'i 1200/55"),
    Chars("schvaluje dotaci 50.000 K^c dle ZM/3/2/2024 a RM/1200/55/2024:"),
    Chars("Zpr'ava o hospoda^ren'i") }

ItemSeps == {Chars("\n"), Chars(" ")}

ItemBodies ==
  { Chars("revokuje usnesen'i 1200/55"),
    Chars("schvaluje dotaci 50.000 K^c"),
    Chars("neschvaluje prodej"),
    Chars("pozemek dle ZM/3/2/2024 a RM/1200/55/2024\nv^se dle usn. ^c. 7/3") }

\* The texts of n items, labelled from the n-th letter back to "a"
RECURSIVE ItemTexts(_)
ItemTexts(n) ==
  IF n = 0 THEN {<<>>}
  ELSE {t \o s \o <<LowerAscii[n], ")", " ">> \o b :
          t \in ItemTexts(n - 1), s \in ItemSeps, b \in ItemBodies}

\* text_raw as phase 1 leaves it: body = block[m.end():].strip()
Texts ==
  {Strip(o \o h \o i) :
     o \in TextOrgs, h \in TextHeads,
     i \in UNION {ItemTexts(n) : n \in 0..MaxItems}}

-----------------------------------------------------------------------------
(* Specifications                                                          *)

\* No call of dedupe_refs on its own
NoCall == call_refs = <<>> /\ deduped = None

Idle ==
  /\ p3_todo = <<>>
  /\ usneseni = <<>>
  /\ by_key = <<>>
  /\ pos = 0
  /\ refs_index = <<>>
  /\ unresolved = <<>>
  /\ resolved_count = 0
  /\ stats = None

\* The pipeline: phase 2 over a batch, then phase 3 over what phase 2 wrote.
Init ==
  /\ pc = "p2"
  /\ raw_dir \in RawDirs
  /\ p2_todo = SortedFiles(raw_dir)
  /\ phase2_dir \in {{}, {StaleFile}}
  /\ p2_stats = [total |-> 0, missing_action |-> 0]
  /\ Idle
  /\ NoCall

Phase2Next == P2Skip \/ P2Process \/ P2Done

Phase3Next ==
  P3Start \/ P3LoadSkip \/ P3Load \/ P3Sort \/ P3Resolve \/ P3ById
    \/ P3RefsIn \/ P3Stats

Next == Phase2Next \/ Phase3Next

Spec == Init /\ [][Next]_vars

\* Phase 2 alone over one record: a well-formed id with a text of Texts, or
\* an id that is not of the grammar.
InitText ==
  /\ pc = "p2"
  /\ raw_dir \in {{RawFile(Chars("RM/7/3/2025"), t)} : t \in Texts}
                   \cup {{RawFile(id, t)} : id \in {BadId, NewlineId},
                                              t \in BatchTexts}
  /\ p2_todo = SortedFiles(raw_dir)
  /\ phase2_dir = {}
  /\ p2_stats = [total |-> 0, missing_action |-> 0]
  /\ Idle
  /\ NoCall

SpecText == InitText /\ [][Phase2Next]_vars

\* The references that the lists given to dedupe_refs are made of
RefPool ==
  [raw : {Chars("1200/55"), Chars("RM/1200/55/2024")},
   type : {"explicit", "implicit"},
   resolved : {None, Chars("RM/1200/55/2024")}]

RECURSIVE RefLists(_)
RefLists(n) ==
  IF n = 0 THEN {<<>>}
  ELSE RefLists(n - 1)
         \cup {Append(l, r) : l \in {x \in RefLists(n - 1) : Len(x) = n - 1},
                              r \in RefPool}

\* dedupe_refs(refs) is called and returns
Dedupe ==
  /\ pc = "dedupe"
  /\ deduped' = dedupe_refs(call_refs)
  /\ pc' = "deduped"
  /\ UNCHANGED <<raw_dir, p2_todo, phase2_dir, p2_stats, p3_todo, usneseni,
                 by_key, pos, refs_index, unresolved, resolved_count, stats,
                 call_refs>>

\* dedupe_refs alone, over a list of references
InitDedupe ==
  /\ pc = "dedupe"
  /\ call_refs \in RefLists(MaxRefs)
  /\ deduped = None
  /\ raw_dir = {}
  /\ p2_todo = <<>>
  /\ phase2_dir = {}
  /\ p2_stats = [total |-> 0, missing_action |-> 0]
  /\ Idle

SpecDedupe == InitDedupe /\ [][Dedupe]_vars

-----------------------------------------------------------------------------
(* Properties of phase 3, under Spec                                       *)

\* The ids of the records that phase 3 has loaded
CorpusIds == {usneseni[i].id : i \in 1..Len(usneseni)}

\* (RM|ZM)/<digits>/<digits>/<digits>, read off the parts between slashes
IdGrammar(id) ==
  Let(Split(id), LAMBDA parts :
    /\ Len(parts) = 4
    /\ parts[1] \in {<<"R", "M">>, <<"Z", "M">>}
    /\ IsInt(parts[2]) /\ IsInt(parts[3]) /\ IsInt(parts[4]))

\* The numbers of an id of the grammar
NumberOf(id) == ParseInt(Split(id)[2])
MeetingOf(id) == ParseInt(Split(id)[3])
YearOf(id) == ParseInt(Split(id)[4])

\* Part 2 of phase 3 has run over the record at index i
ResolvedAt(i) ==
  (pc = "p3_resolve" /\ i < pos) \/ pc \in {"p3_refs_in", "done"}

\* The indices of the implicit references of a record
ImplicitRefs(u) ==
  {k \in 1..Len(u.references_out) : u.references_out[k].type = "implicit"}

\* The records of the corpus with the (number, meeting) that raw names
SameKey(raw) ==
  {c \in CorpusIds : <<NumberOf(c), MeetingOf(c)>> = IntPair(raw)}

\* Those of them that are not later than the record of id uid
Candidates(uid, raw) == {c \in SameKey(raw) : YearOf(c) <= YearOf(uid)}

\* C1: in phase 3, an implicit reference of a record u whose (number,
\* meeting) names at least one record of the corpus with year <= u's year is
\* resolved to such a record with the largest year <= u's year.
C1_NearestYear ==
  \A i \in 1..Len(usneseni) :
    ResolvedAt(i) =>
      \A k \in ImplicitRefs(usneseni[i]) :
        Let2(usneseni[i].references_out[k],
             Candidates(usneseni[i].id, usneseni[i].references_out[k].raw),
             LAMBDA r, cands :
               cands # {} =>
                 /\ r.resolved \in cands
                 /\ \A c \in cands : YearOf(c) <= YearOf(r.resolved))

\* C1: a 2025 record's reference 1200/55 is resolved to RM/1200/55/2024 with
\* RM/1200/55/2023 and RM/1200/55/2024 in the corpus.
C1_Witness ==
  /\ pc = "done"
  /\ {Chars("RM/1200/55/2023"), Chars("RM/1200/55/2024")} \subseteq CorpusIds
  /\ \E i \in 1..Len(usneseni) :
       /\ YearOf(usneseni[i].id) = 2025
       /\ \E k \in ImplicitRefs(usneseni[i]) :
            /\ usneseni[i].references_out[k].raw = Chars("1200/55")
            /\ usneseni[i].references_out[k].resolved = Chars("RM/1200/55/2024")

\* The ids of the records with a reference resolved to the record of id t
SourcesOf(t) ==
  {usneseni[i].id :
     i \in {j \in 1..Len(usneseni) :
              \E k \in 1..Len(usneseni[j].references_out) :
                usneseni[j].references_out[k].resolved = t}}

\* How many entries of the references_in of the record at index t are from s
CountFrom(t, s) ==
  Cardinality({k \in 1..Len(usneseni[t].references_in) :
                 usneseni[t].references_in[k].from = s})

\* C2: after phase 3, the references_in of every record holds exactly one
\* entry for each distinct source record with a reference resolved to it, and
\* no other entry.
C2_OneEntryPerSource ==
  pc = "done" =>
    \A t \in 1..Len(usneseni) :
      \A s \in CorpusIds :
        CountFrom(t, s) = IF s \in SourcesOf(usneseni[t].id) THEN 1 ELSE 0

\* How many times a pair is in the unresolved list
TimesUnresolved(uid, raw) ==
  Cardinality({n \in 1..Len(unresolved) : unresolved[n] = <<uid, raw>>})

\* The references, as <<record, reference>> indices, that are resolved to a
\* record of the corpus
ResolvedInCorpus ==
  {ik \in UNION {{<<i, k>> : k \in 1..Len(usneseni[i].references_out)} :
                   i \in 1..Len(usneseni)} :
     usneseni[ik[1]].references_out[ik[2]].resolved \in CorpusIds}

\* C3: an implicit reference of a record u with no record of the same
\* (number, meeting) and year <= u's year in the corpus keeps resolved = null
\* and is once in the unresolved list as (u.id, raw); when phase 3 is over
\* every record has been through both passes, every reference is resolved or
\* listed as unresolved, and the references_in lists hold an entry only for
\* the references resolved to a record of the corpus.
C3_UnresolvedKept ==
  /\ \A i \in 1..Len(usneseni) :
       ResolvedAt(i) =>
         \A k \in ImplicitRefs(usneseni[i]) :
           Let2(usneseni[i].id, usneseni[i].references_out[k], LAMBDA uid, r :
             Candidates(uid, r.raw) = {} =>
               /\ r.resolved = None
               /\ TimesUnresolved(uid, r.raw) = 1)
  /\ pc = "done" =>
       /\ \A i \in 1..Len(usneseni) :
            /\ "references_in" \in DOMAIN usneseni[i]
            /\ \A k \in 1..Len(usneseni[i].references_out) :
                 \/ Truthy(usneseni[i].references_out[k].resolved)
                 \/ TimesUnresolved(usneseni[i].id,
                                    usneseni[i].references_out[k].raw) = 1
       /\ Sum([i \in 1..Len(usneseni) |-> Len(usneseni[i].references_in)])
            = Cardinality(ResolvedInCorpus)

\* C3: phase 3 is over; a record has a reference to a (number, meeting) that
\* only later records have and one to a (number, meeting) that no record
\* has, both unresolved, and another record has a resolved reference.
C3_Witness ==
  /\ pc = "done"
  /\ \E i \in 1..Len(usneseni) :
       /\ \E k \in ImplicitRefs(usneseni[i]) :
            /\ Candidates(usneseni[i].id, usneseni[i].references_out[k].raw) = {}
            /\ SameKey(usneseni[i].references_out[k].raw) # {}
            /\ usneseni[i].references_out[k].resolved = None
       /\ \E k \in ImplicitRefs(usneseni[i]) :
            /\ SameKey(usneseni[i].references_out[k].raw) = {}
            /\ usneseni[i].references_out[k].resolved = None
       /\ \E j \in 1..Len(usneseni) :
            /\ j # i
            /\ \E k \in ImplicitRefs(usneseni[j]) :
                 Truthy(usneseni[j].references_out[k].resolved)

\* All references of the corpus, as <<record, reference>> indices
AllRefs ==
  UNION {{<<i, k>> : k \in 1..Len(usneseni[i].references_out)} :
           i \in 1..Len(usneseni)}

\* Those that are explicit, or implicit with a record of the corpus to
\* resolve to
Resolvable ==
  {ik \in AllRefs :
     Let2(usneseni[ik[1]].id, usneseni[ik[1]].references_out[ik[2]],
          LAMBDA uid, r :
            r.type = "explicit" \/ Candidates(uid, r.raw) # {})}

\* C14: in the statistics of phase 3 every outgoing reference of every
\* record is counted once, as resolved or as unresolved: refs_total =
\* refs_resolved + refs_unresolved, refs_unresolved is the length of
\* unresolved_refs, and the resolved ones are the explicit references
\* (their target in the corpus or not) and the implicit ones with a
\* candidate.
C14_StatsPartition ==
  pc = "done" =>
    /\ stats.refs_total = Cardinality(AllRefs)
    /\ stats.refs_total = stats.refs_resolved + stats.refs_unresolved
    /\ stats.refs_unresolved = Len(stats.unresolved_refs)
    /\ stats.refs_resolved = Cardinality(Resolvable)
    /\ \A ik \in AllRefs \ Resolvable :
         \E n \in 1..Len(stats.unresolved_refs) :
           stats.unresolved_refs[n] =
             <<usneseni[ik[1]].id, usneseni[ik[1]].references_out[ik[2]].raw>>

\* C14: phase 3 is over; the corpus has an explicit reference to an id that
\* is not in it, a resolved implicit reference and an unresolved one.
C14_Witness ==
  /\ pc = "done"
  /\ \E ik \in AllRefs :
       /\ usneseni[ik[1]].references_out[ik[2]].type = "explicit"
       /\ usneseni[ik[1]].references_out[ik[2]].raw \notin CorpusIds
  /\ \E ik \in Resolvable :
       usneseni[ik[1]].references_out[ik[2]].type = "implicit"
  /\ AllRefs \ Resolvable # {}
  /\ stats.refs_resolved >= 2 /\ stats.refs_unresolved >= 1

-----------------------------------------------------------------------------
(* Properties of phase 2, and of both phases, under SpecText              *)

\* The pairs <<raw record, structured record>> of the files written so far
Parsed ==
  {<<fg[1].data, fg[2].data>> :
     fg \in {x \in raw_dir \X phase2_dir : x[1].name = x[2].name}}

\* The organ-stripped text of a raw record, and the head before its items
BodyOf(raw) == split_header(raw.text_raw)[2]
HeadOf(raw) == split_head_items(BodyOf(raw))[1]

\* A text as extract_action reads it
Norm(t) == LowerStr(LStrip(t, WS))

\* The text norm starts with "ne" and the phrase p
Negated(norm, p) ==
  MatchAt(norm, 1, <<"n", "e">> \o p) /\ Boundary(norm, Len(p) + 2)

\* The text norm starts with the phrase p
Affirmed(norm, p) == MatchAt(norm, 1, p) /\ Boundary(norm, Len(p))

ItemNorms(d) == [i \in 1..Len(d.items) |-> Norm(d.items[i].text)]

\* One of the texts starts with a phrase, negated or not
SomeAction(norms) ==
  \E i \in 1..Len(norms) :
    \E q \in Range(ACTION_PHRASES) : Affirmed(norms[i], q) \/ Negated(norms[i], q)

\* A record of Type B: an item starts with a phrase, negated or not
IsTypeB(d) == SomeAction(ItemNorms(d))

\* The references of a list, as the set of their <<raw, type>>
RefKeys(refs) == {<<refs[i].raw, refs[i].type>> : i \in 1..Len(refs)}

\* The free-text spans of a structured record
SpansOf(d) == OptSpan(d.subject) \o ItemTextsOf(d.items) \o OptSpan(d.tail)

\* C4: every reference that the extractor finds in the subject, in an
\* item's text or in the tail of a record is in its references_out.
C4_EverySpanScanned ==
  \A p \in Parsed :
    \A i \in 1..Len(SpansOf(p[2])) :
      RefKeys(extract_refs(SpansOf(p[2])[i])) \subseteq RefKeys(p[2].references_out)

\* The last character of (RM|ZM)/digits/digits/digits at position i, or 0
QualifiedIdEnd(t, i) ==
  Let(RunEnd(t, i + 3, Digits), LAMBDA e1 :
  Let(RunEnd(t, e1 + 2, Digits), LAMBDA e2 :
  Let(RunEnd(t, e2 + 2, Digits), LAMBDA e3 :
    IF /\ i + 2 <= Len(t)
       /\ SubSeq(t, i, i + 2) \in {<<"R", "M", "/">>, <<"Z", "M", "/">>}
       /\ e1 >= i + 3 /\ MatchAt(t, e1 + 1, <<"/">>)
       /\ e2 >= e1 + 2 /\ MatchAt(t, e2 + 1, <<"/">>)
       /\ e3 >= e2 + 2
    THEN e3 ELSE 0)))

\* The fully-qualified identifiers that a text mentions
QualifiedIds(t) ==
  {SubSeq(t, i, QualifiedIdEnd(t, i)) :
     i \in {j \in 1..Len(t) : QualifiedIdEnd(t, j) # 0}}

\* C5: every (RM|ZM)/digits/digits/digits in a scanned span (an item's text,
\* the tail) of a record is in its references_out as an explicit reference
\* whose resolved is its raw text.
C5_ExplicitBothBodies ==
  \A p \in Parsed :
    \A t \in Range(ItemTextsOf(p[2].items) \o OptSpan(p[2].tail)) :
      \A q \in QualifiedIds(t) :
        \E k \in 1..Len(p[2].references_out) :
          p[2].references_out[k] = [raw |-> q, type |-> "explicit", resolved |-> q]

C6_SingleLine ==
  Chars("a) revokuje usnesen'i 1200/55 b) schvaluje dotaci 50.000 K^c")

C6_TwoLines ==
  Chars("a) revokuje usnesen'i 1200/55\nb) schvaluje dotaci 50.000 K^c")

C6_Ref == [raw |-> Chars("1200/55"), type |-> "implicit", resolved |-> None]

C6_Amount == Chars("50.000 K^c")

\* What C6 says of the record: Type B, items a and b, both actions, the
\* reference from item a and the amount from item b
C6_TwoItems(d) ==
  /\ IsTypeB(d)
  /\ Len(d.items) = 2 /\ d.items[1].label = "a" /\ d.items[2].label = "b"
  /\ d.actions = <<Chars("revokuje"), Chars("schvaluje")>>
  /\ d.references_out = <<C6_Ref>>
  /\ extract_refs(d.items[1].text) = <<C6_Ref>>
  /\ d.amounts = <<C6_Amount>>
  /\ extract_amounts(normalize_amount_text(d.items[2].text)) = {C6_Amount}

\* C6 as stated: the single-line text "a) revokuje usneseni 1200/55 b)
\* schvaluje dotaci 50.000 Kc" yields a Type B record with the items a and b,
\* actions = [revokuje, schvaluje], the implicit reference 1200/55 from item
\* a and the amount 50.000 Kc from item b.
C6_SingleLineTwoItems ==
  \A p \in Parsed : p[1].text_raw = C6_SingleLine => C6_TwoItems(p[2])

\* C6, amended: the text with "b)" at the start of a line of its own yields
\* that record; the single-line text yields a Type B record with the one
\* item a, whose text runs to the end, actions = [revokuje], and both the
\* reference and the amount from item a.
C6_MarkerAtLineStart ==
  \A p \in Parsed :
    /\ p[1].text_raw = C6_TwoLines => C6_TwoItems(p[2])
    /\ p[1].text_raw = C6_SingleLine =>
         /\ IsTypeB(p[2])
         /\ p[2].items = <<[label |-> "a", text |-> SubSeq(C6_SingleLine, 4, Len(C6_SingleLine))]>>
         /\ p[2].actions = <<Chars("revokuje")>>
         /\ p[2].references_out = <<C6_Ref>>
         /\ p[2].amounts = <<C6_Amount>>

\* C6: phase 2 has written the record of the two-line text, with two items.
C6_Witness ==
  /\ pc = "p2_done"
  /\ \E p \in Parsed : p[1].text_raw = C6_TwoLines /\ Len(p[2].items) = 2

\* C7: every action of a record is its own normal form under the
\* normalization table (no key of the table is an action), and the head
\* "rozhodla:" yields the action rozhoduje.
C7_ActionsNormalized ==
  \A p \in Parsed :
    /\ \A a \in Range(p[2].actions) : normalize_action(a) = a
    /\ p[1].text_raw = Chars("rozhodla:") => p[2].actions = <<Chars("rozhoduje")>>

\* The positions in body of the ")" of the markers that ITEM_RE finds
MarkerParens(body) ==
  Let(ITEM_RE_finditer(body, 1), LAMBDA found :
    {(IF body[found[i].start] = "\n" THEN found[i].start + 1
                                     ELSE found[i].start) + 1 :
       i \in 1..Len(found)})

\* body minus the sub-item marker syntax: the labels stay
WithoutMarkers(body) ==
  Let(MarkerParens(body), LAMBDA parens :
    Let(SelectSeq([i \in 1..Len(body) |-> i], LAMBDA i : i \notin parens),
        LAMBDA keep : [k \in 1..Len(keep) |-> body[keep[k]]]))

\* The subject, every item's label and text, and the tail, in document order
Rebuilt(d) ==
  Flatten(OptSpan(d.subject)
            \o [i \in 1..Len(d.items) |-> <<d.items[i].label>> \o d.items[i].text]
            \o OptSpan(d.tail))

\* A text without its white space, the colons and commas that end a head,
\* and the case of its letters
Squeeze(t) ==
  LowerStr(SelectSeq(t, LAMBDA c : c \notin WS \cup {":", ","}))

\* C8: the subject, every item's label and text, and the tail of a record,
\* concatenated in document order, reproduce (white space, case, colons
\* and commas aside, and with the action that was cut off the head put back)
\* the organ-stripped input text minus the ")" of the markers.
C8_Lossless ==
  \A p \in Parsed :
    Let2(Squeeze(WithoutMarkers(BodyOf(p[1]))), Squeeze(Rebuilt(p[2])),
         LAMBDA input, output :
           \/ output = input
           \/ \E a \in Range(p[2].actions) : Squeeze(a) \o output = input)

C10_Head == Chars("Rada m^esta Litovel neschvaluje ^z'adost o dotaci")

\* C10: a head (of a record of Type A) that starts with "ne" and a phrase
\* yields the one action "ne" + phrase; an item that does yields the action
\* "ne" + phrase, and a phrase is an action only if an item starts with it;
\* the head "Rada mesta Litovel neschvaluje zadost o dotaci" yields
\* actions = [neschvaluje].
C10_NegationKept ==
  \A p \in Parsed :
    /\ p[1].text_raw = C10_Head => p[2].actions = <<Chars("neschvaluje")>>
    /\ Let3(Norm(HeadOf(p[1])), ItemNorms(p[2]), Range(p[2].actions),
            LAMBDA head, items, actions :
         Let(SomeAction(items), LAMBDA typeB :
           \A q \in Range(ACTION_PHRASES) :
             /\ (~typeB /\ Negated(head, q)) =>
                  actions = {<<"n", "e">> \o q}
             /\ \A i \in 1..Len(items) :
                  Negated(items[i], q) => <<"n", "e">> \o q \in actions
             /\ (typeB /\ q \in actions) =>
                  \E i \in 1..Len(items) : Affirmed(items[i], q)))

\* C10: phase 2 has written the record of that head, with an action.
C10_Witness ==
  /\ pc = "p2_done"
  /\ \E p \in Parsed : p[1].text_raw = C10_Head /\ p[2].actions # <<>>

\* The files of a directory whose record has an id of the grammar
WellFormed(dir) == {f \in dir : IdGrammar(f.data.id)}

\* C9: a record whose id is not of the grammar (RM|ZM)/digits/digits/digits
\* is never written by phase 2, never loaded or indexed by phase 3, never
\* the resolution of an implicit reference and never counted, while every
\* well-formed record of the batch is written by phase 2 and loaded by
\* phase 3.
C9_MalformedExcluded ==
  /\ \A f \in raw_dir \ WellFormed(raw_dir) :
       \A g \in phase2_dir : g.name # f.name
  /\ \A i \in 1..Len(usneseni) : IdGrammar(usneseni[i].id)
  /\ \A k \in DOMAIN by_key :
       \A n \in 1..Len(by_key[k]) : IdGrammar(by_key[k][n][2])
  /\ \A i \in 1..Len(usneseni) :
       \A k \in ImplicitRefs(usneseni[i]) :
         Truthy(usneseni[i].references_out[k].resolved) =>
           IdGrammar(usneseni[i].references_out[k].resolved)
  /\ pc # "p2" =>
       /\ p2_stats.total = Cardinality(WellFormed(raw_dir))
       /\ \A f \in WellFormed(raw_dir) :
            \E g \in phase2_dir : g.name = f.name /\ g.data.id = f.data.id
  /\ pc = "done" =>
       /\ stats.total_usneseni = Cardinality(WellFormed(phase2_dir))
       /\ CorpusIds = {f.data.id : f \in WellFormed(phase2_dir)}

\* ---------------------------------------------------------------------
\* Properties of dedupe_refs, checked under SpecDedupe.

\* The raw texts of a list of references, each once, in the order of their
\* first occurrence.
FirstPositions(refs) ==
  SelectSeq([i \in 1..Len(refs) |-> i],
            LAMBDA i : \A j \in 1..(i - 1) : refs[j].raw # refs[i].raw)

-----------------------------------------------------------------------------
(* Phase 3 over a directory whose file names are not made from the ids     *)

\* Ids of a corpus with a tie: two records of one (number, meeting) and year
TieIds ==
  { Chars("RM/1/1/2023"), Chars("RM/1/1/2024"), Chars("ZM/1/1/2024"),
    Chars("RM/5/2/2025"), BadId }

\* The names of the files of the input directory; sorted(...) orders the
\* corpus by them
TieNames == {Chars("a.json"), Chars("b.json"), Chars("c.json")}

\* The record of RM/5/2/2025 refers to 1/1; the others refer to nothing
TieText(id) ==
  IF id = Chars("RM/5/2/2025") THEN Chars("a) revokuje usnesen'i 1/1")
  ELSE Chars("Rada m^esta Litovel schvaluje rozpo^cet")

\* What phase 2 makes of the record of an id
TieRecord(id) == process_usneseni(RawFile(id, TieText(id)).data)

\* The directories of at most MaxFiles files, each id in one file at most
TieDirs ==
  UNION {{{[name |-> n, data |-> TieRecord(f[n])] : n \in N} :
            f \in {g \in [N -> TieIds] :
                     \A a, b \in N : a # b => g[a] # g[b]}} :
           N \in {M \in SUBSET TieNames : Cardinality(M) \in 1..MaxFiles}}

InitTie ==
  /\ pc = "p2_done"
  /\ raw_dir = {}
  /\ p2_todo = <<>>
  /\ phase2_dir \in TieDirs
  /\ p2_stats = [total |-> 0, missing_action |-> 0]
  /\ Idle
  /\ NoCall

SpecTie == InitTie /\ [][Phase3Next]_vars

\* The candidates of the latest year among those not later than uid
Nearest(uid, raw) ==
  Let(Candidates(uid, raw), LAMBDA cands :
    {c \in cands : \A d \in cands : YearOf(d) <= YearOf(c)})

\* The id of a set of ids whose record comes last in the corpus
LastInserted(ids) ==
  usneseni[Max({j \in 1..Len(usneseni) : usneseni[j].id \in ids})].id

\* C12: when two records of the corpus have the (number, meeting) of an
\* implicit reference and one year, and that year is the largest year <= the
\* source's year, the reference is resolved to the one of them that comes
\* later in the corpus, whatever the order of the corpus.
C12_LastInsertedWins ==
  pc = "done" =>
    \A i \in 1..Len(usneseni) :
      \A k \in ImplicitRefs(usneseni[i]) :
        Let(Nearest(usneseni[i].id, usneseni[i].references_out[k].raw),
            LAMBDA top :
              Cardinality(top) >= 2 =>
                usneseni[i].references_out[k].resolved = LastInserted(top))

-----------------------------------------------------------------------------
(* Phase 3 run again over the records it has written                       *)

RerunIds ==
  { Chars("RM/1200/55/2023"), Chars("RM/1200/55/2024"), Chars("RM/7/3/2025"),
    BadId }

\* What phase 2 writes for a file of raw records
Structured(f) == [name |-> f.name, data |-> process_usneseni(f.data)]

\* The output directories of phase 2 over at most MaxFiles records
RerunDirs ==
  UNION {{{Structured(f) : f \in dir} : dir \in DirsOver(S, BatchTexts)} :
           S \in {T \in SUBSET RerunIds : Cardinality(T) \in 1..MaxFiles}}

InitRerun ==
  /\ pc = "p2_done"
  /\ raw_dir = {}
  /\ p2_todo = <<>>
  /\ phase2_dir \in RerunDirs
  /\ p2_stats = [total |-> 0, missing_action |-> 0]
  /\ Idle
  /\ NoCall

\* The files of the input directory that phase 3 has loaded, in order
Loaded ==
  SelectSeq(SortedFiles(phase2_dir), LAMBDA f : parse_id(f.data.id) # None)

\* The input directory holds records that phase 3 has written
Produced ==
  /\ phase2_dir # {}
  /\ \A f \in phase2_dir : "references_in" \in DOMAIN f.data

\* The records of usneseni.json become the input of a second run of phase 3,
\* each under the name of the file it was loaded from, so that sorted(...)
\* iterates them in the same order.
P3Rerun ==
  /\ pc = "done"
  /\ usneseni # <<>>
  /\ ~Produced
  /\ phase2_dir' =
       {[name |-> Loaded[i].name, data |-> usneseni[i]] :
          i \in 1..Len(usneseni)}
  /\ pc' = "p2_done"
  /\ p3_todo' = <<>>
  /\ usneseni' = <<>>
  /\ by_key' = <<>>
  /\ pos' = 0
  /\ refs_index' = <<>>
  /\ unresolved' = <<>>
  /\ resolved_count' = 0
  /\ stats' = None
  /\ UNCHANGED <<raw_dir, p2_todo, p2_stats, call_refs, deduped>>

NextRerun == Phase3Next \/ P3Rerun

SpecRerun == InitRerun /\ [][NextRerun]_vars

\* C11: phase 3 run over the records it has itself written, in the same
\* order, writes the same records again: the same resolved value in every
\* references_out and the same references_in list for every record, order
\* included, with no entry of the earlier run added a second time.
C11_Idempotent ==
  (pc = "done" /\ Produced) =>
    /\ Len(usneseni) = Len(Loaded)
    /\ \A i \in 1..Len(usneseni) :
         /\ usneseni[i].id = Loaded[i].data.id
         /\ usneseni[i].references_out = Loaded[i].data.references_out
         /\ usneseni[i].references_in = Loaded[i].data.references_in

\* C11: a second run is over; its input held a record with a references_in
\* entry, a resolved implicit reference and an unresolved one.
C11_Witness ==
  /\ pc = "done"
  /\ Produced
  /\ \E f \in phase2_dir : f.data.references_in # <<>>
  /\ \E f \in phase2_dir :
       \E k \in ImplicitRefs(f.data) : f.data.references_out[k].resolved # None
  /\ \E f \in phase2_dir :
       \E k \in ImplicitRefs(f.data) : f.data.references_out[k].resolved = None

====
